---- MODULE Spec2Model ----
(***************************************************************************)
(* AutoForms: the in-process rate limiters (backend/services/              *)
(* rate_limiter.py) and the email send operations that use them            *)
(* (backend/services/email_service.py).                                    *)
(*                                                                         *)
(* Time is the value of time.time(), counted in whole units from 0.  A     *)
(* call of a synchronous method reads one clock value: the clock does not  *)
(* advance inside check_rate_limit, record_email_sent,                     *)
(* get_rate_limit_status or check_and_record (they contain no await).      *)
(* The key of a record is the pair (rule name, identifier): the 16 hex     *)
(* digit sha256 prefix of _generate_key is taken to be free of collisions  *)
(* on the identifiers of the model.                                        *)
(***************************************************************************)
EXTENDS Integers, Sequences, FiniteSets, TLC

\* ------------------------------------------------------------------ bounds
\* The rules of the source count 5..200 requests in 3600 s; the model
\* keeps their shape on a clock of a few units.
\* The rules of the source keep their order (address < user <= IP < global
\* requests, cooldown of an address or a user shorter than the window).
MaxTime == 3
WindowSeconds == 3
CooldownShort == 2
CooldownLong == 3
MaxPerAddress == 2
MaxPerUser == 2
MaxPerIp == 2
MaxGlobal == 3

\* ------------------------------------------------------------ identifiers
NoId == ""
Addresses == {"a@x", "b@x"}
UserIds == {NoId, "u1"}
IpAddresses == {NoId, "ip1"}
GlobalId == "global"

\* RateLimitRecord.blocked_until = None
None == -1

\* EmailRateLimiter.rules
rules ==
    [email_per_address |-> [max_requests |-> MaxPerAddress,
                            window_seconds |-> WindowSeconds,
                            cooldown_seconds |-> CooldownShort],
     email_per_ip      |-> [max_requests |-> MaxPerIp,
                            window_seconds |-> WindowSeconds,
                            cooldown_seconds |-> CooldownShort],
     email_global      |-> [max_requests |-> MaxGlobal,
                            window_seconds |-> WindowSeconds,
                            cooldown_seconds |-> CooldownLong],
     email_per_user    |-> [max_requests |-> MaxPerUser,
                            window_seconds |-> WindowSeconds,
                            cooldown_seconds |-> CooldownShort]]

\* cleanup_expired_records: 7200 s, twice the window of every rule
InactiveSeconds == 2 * WindowSeconds

\* RateLimitRecord()
NewRecord == [requests |-> <<>>, blocked_until |-> None, total_blocked |-> 0]

\* _generate_key without the identifier in the key
GenerateKeyMutNoIdentifier(rule_name, identifier) == <<rule_name, NoId>>

\* _generate_key
GenerateKey(rule_name, identifier) == <<rule_name, identifier>>

\* self._records[key] of a defaultdict: a missing key reads as a new record
GetRecord(recs, key) == IF key \in DOMAIN recs THEN recs[key] ELSE NewRecord

\* self._records[key] = record (the record object is updated in place)
PutRecord(recs, key, record) ==
    [k \in (DOMAIN recs) \cup {key} |-> IF k = key THEN record ELSE recs[k]]

\* _cleanup_old_records with >= for > : a timestamp exactly one window old stays
CleanupOldMutKeepBoundary(requests, window_seconds, t) ==
    SelectSeq(requests, LAMBDA req_time : req_time >= t - window_seconds)

\* _cleanup_old_records: keep req_time > current_time - window_seconds
CleanupOld(requests, window_seconds, t) ==
    SelectSeq(requests, LAMBDA req_time : req_time > t - window_seconds)

\* the cooldown test ending one time unit early
InCooldownMutEarly(record, t) ==
    record.blocked_until # None /\ t + 1 < record.blocked_until

\* record.blocked_until and current_time < record.blocked_until
InCooldown(record, t) ==
    record.blocked_until # None /\ t < record.blocked_until

\* the expired block cleared together with the count of blocks
ClearExpiredBlockMutResetCount(record, t) ==
    IF record.blocked_until # None /\ t >= record.blocked_until
    THEN [record EXCEPT !.blocked_until = None, !.total_blocked = 0]
    ELSE record

\* if record.blocked_until and current_time >= record.blocked_until:
\*     record.blocked_until = None
ClearExpiredBlock(record, t) ==
    IF record.blocked_until # None /\ t >= record.blocked_until
    THEN [record EXCEPT !.blocked_until = None]
    ELSE record

\* the branch without record.total_blocked += 1
ApplyCooldownMutNoCount(record, rule, t) ==
    IF rule.cooldown_seconds # 0
    THEN [record EXCEPT !.blocked_until = t + rule.cooldown_seconds]
    ELSE record

\* the branch taken at len(record.requests) >= rule.max_requests
ApplyCooldown(record, rule, t) ==
    IF rule.cooldown_seconds # 0
    THEN [record EXCEPT !.blocked_until = t + rule.cooldown_seconds,
                        !.total_blocked = @ + 1]
    ELSE record

\* `checks` with the global rule put first
ChecksMutGlobalFirst(email_address, user_id, ip_address) ==
    << <<"email_global", GlobalId>>, <<"email_per_address", email_address>> >>
    \o (IF user_id # NoId THEN << <<"email_per_user", user_id>> >> ELSE <<>>)
    \o (IF ip_address # NoId THEN << <<"email_per_ip", ip_address>> >> ELSE <<>>)

\* the list `checks` of check_rate_limit, `identifiers` of record_email_sent
Checks(email_address, user_id, ip_address) ==
    << <<"email_per_address", email_address>>, <<"email_global", GlobalId>> >>
    \o (IF user_id # NoId THEN << <<"email_per_user", user_id>> >> ELSE <<>>)
    \o (IF ip_address # NoId THEN << <<"email_per_ip", ip_address>> >> ELSE <<>>)

\* the loop body with > for >= in the capacity test
CheckOneMutOffByOne(record, rule, t) ==
    IF InCooldown(record, t)
    THEN [record |-> record, allowed |-> FALSE]
    ELSE LET cleared == ClearExpiredBlock(record, t)
             pruned == [cleared EXCEPT
                          !.requests = CleanupOld(@, rule.window_seconds, t)]
         IN  IF Len(pruned.requests) > rule.max_requests
             THEN [record |-> ApplyCooldown(pruned, rule, t), allowed |-> FALSE]
             ELSE [record |-> pruned, allowed |-> TRUE]

\* the loop body counting a check made during a cooldown as a new block
CheckOneMutCountInCooldown(record, rule, t) ==
    IF InCooldown(record, t)
    THEN [record |-> [record EXCEPT !.total_blocked = @ + 1], allowed |-> FALSE]
    ELSE LET cleared == ClearExpiredBlock(record, t)
             pruned == [cleared EXCEPT
                          !.requests = CleanupOld(@, rule.window_seconds, t)]
         IN  IF Len(pruned.requests) >= rule.max_requests
             THEN [record |-> ApplyCooldown(pruned, rule, t), allowed |-> FALSE]
             ELSE [record |-> pruned, allowed |-> TRUE]

\* the loop body recording the request when it allows, as check_and_record does
CheckOneMutAppend(record, rule, t) ==
    IF InCooldown(record, t)
    THEN [record |-> record, allowed |-> FALSE]
    ELSE LET cleared == ClearExpiredBlock(record, t)
             pruned == [cleared EXCEPT
                          !.requests = CleanupOld(@, rule.window_seconds, t)]
         IN  IF Len(pruned.requests) >= rule.max_requests
             THEN [record |-> ApplyCooldown(pruned, rule, t), allowed |-> FALSE]
             ELSE [record |-> [pruned EXCEPT !.requests = Append(@, t)],
                   allowed |-> TRUE]

\* the loop body letting a request through as soon as the cooldown has
\* elapsed, without looking at the window
CheckOneMutExpiryPermits(record, rule, t) ==
    IF InCooldown(record, t)
    THEN [record |-> record, allowed |-> FALSE]
    ELSE IF record.blocked_until # None
         THEN [record |-> ClearExpiredBlock(record, t), allowed |-> TRUE]
         ELSE LET pruned == [record EXCEPT
                               !.requests = CleanupOld(@, rule.window_seconds, t)]
              IN  IF Len(pruned.requests) >= rule.max_requests
                  THEN [record |-> ApplyCooldown(pruned, rule, t), allowed |-> FALSE]
                  ELSE [record |-> pruned, allowed |-> TRUE]

\* One pass of the loop body of check_rate_limit on one record:
\* the record afterwards and whether the loop goes on.
CheckOne(record, rule, t) ==
    IF InCooldown(record, t)
    THEN [record |-> record, allowed |-> FALSE]
    ELSE LET cleared == ClearExpiredBlock(record, t)
             pruned == [cleared EXCEPT
                          !.requests = CleanupOld(@, rule.window_seconds, t)]
         IN  IF Len(pruned.requests) >= rule.max_requests
             THEN [record |-> ApplyCooldown(pruned, rule, t), allowed |-> FALSE]
             ELSE [record |-> pruned, allowed |-> TRUE]

\* the for loop of check_rate_limit from position i of `checks`
RECURSIVE CheckLoop(_, _, _, _)
CheckLoop(recs, checks, i, t) ==
    IF i > Len(checks)
    THEN [records |-> recs, allowed |-> TRUE]
    ELSE LET rule_name == checks[i][1]
             key == GenerateKey(rule_name, checks[i][2])
             one == CheckOne(GetRecord(recs, key), rules[rule_name], t)
             recs1 == PutRecord(recs, key, one.record)
         IN  IF one.allowed
             THEN CheckLoop(recs1, checks, i + 1, t)
             ELSE [records |-> recs1, allowed |-> FALSE]

\* EmailRateLimiter.check_rate_limit
CheckRateLimit(recs, email_address, user_id, ip_address, t) ==
    CheckLoop(recs, Checks(email_address, user_id, ip_address), 1, t)

\* the loop assigning [current_time] to record.requests instead of appending
RECURSIVE RecordLoopMutAssign(_, _, _, _)
RecordLoopMutAssign(recs, identifiers, i, t) ==
    IF i > Len(identifiers)
    THEN recs
    ELSE LET key == GenerateKey(identifiers[i][1], identifiers[i][2])
             record == GetRecord(recs, key)
         IN  RecordLoopMutAssign(
                 PutRecord(recs, key, [record EXCEPT !.requests = <<t>>]),
                 identifiers, i + 1, t)

\* the for loop of record_email_sent from position i of `identifiers`
RECURSIVE RecordLoop(_, _, _, _)
RecordLoop(recs, identifiers, i, t) ==
    IF i > Len(identifiers)
    THEN recs
    ELSE LET key == GenerateKey(identifiers[i][1], identifiers[i][2])
             record == GetRecord(recs, key)
         IN  RecordLoop(
                 PutRecord(recs, key,
                           [record EXCEPT !.requests = Append(@, t)]),
                 identifiers, i + 1, t)

\* EmailRateLimiter.record_email_sent
RecordEmailSent(recs, email_address, user_id, ip_address, t) ==
    RecordLoop(recs, Checks(email_address, user_id, ip_address), 1, t)

\* the list `checks` of get_rate_limit_status
StatusChecks(email_address, user_id) ==
    << <<"email_per_address", email_address>> >>
    \o (IF user_id # NoId THEN << <<"email_per_user", user_id>> >> ELSE <<>>)

\* the for loop of get_rate_limit_status from position i of `checks`
RECURSIVE StatusLoop(_, _, _, _)
StatusLoop(recs, checks, i, t) ==
    IF i > Len(checks)
    THEN recs
    ELSE LET rule_name == checks[i][1]
             key == GenerateKey(rule_name, checks[i][2])
             record == GetRecord(recs, key)
         IN  StatusLoop(
                 PutRecord(recs, key,
                           [record EXCEPT !.requests =
                              CleanupOld(@, rules[rule_name].window_seconds, t)]),
                 checks, i + 1, t)

\* EmailRateLimiter.get_rate_limit_status (its effect on the records)
GetRateLimitStatus(recs, email_address, user_id, t) ==
    StatusLoop(recs, StatusChecks(email_address, user_id), 1, t)

\* the condition of cleanup_expired_records; Python reads
\*   not A or (A and old) and (not blocked or passed)
\* as  (not A) or ((A and old) and (not blocked or passed))
IsExpiredRecord(record, t) ==
    \/ record.requests = <<>>
    \/ /\ record.requests # <<>>
          /\ t - record.requests[Len(record.requests)] > InactiveSeconds
       /\ (record.blocked_until = None \/ t > record.blocked_until)

\* EmailRateLimiter.cleanup_expired_records
CleanupExpiredRecords(recs, t) ==
    [k \in {key \in DOMAIN recs : ~IsExpiredRecord(recs[key], t)} |-> recs[k]]

\* --------------------------------------------------------- APIRateLimiter
\* APIRateLimiter.rules
apiRules ==
    [api_per_ip               |-> [max_requests |-> MaxPerIp,
                                   window_seconds |-> WindowSeconds,
                                   cooldown_seconds |-> CooldownShort],
     api_per_user             |-> [max_requests |-> MaxPerUser,
                                   window_seconds |-> WindowSeconds,
                                   cooldown_seconds |-> CooldownShort],
     form_generation_per_user |-> [max_requests |-> MaxPerUser,
                                   window_seconds |-> WindowSeconds,
                                   cooldown_seconds |-> CooldownLong],
     form_submission          |-> [max_requests |-> MaxPerIp,
                                   window_seconds |-> WindowSeconds,
                                   cooldown_seconds |-> CooldownShort]]

\* the rule names and identifiers check_and_record is called with
ApiRuleNames == {"form_generation_per_user", "no_such_rule"}
ApiIdentifiers == {"u1"}

\* f"api_rate:{rule_name}:{sha256(identifier)[:16]}"
ApiKey(rule_name, identifier) == <<rule_name, identifier>>

\* APIRateLimiter.check_and_record
CheckAndRecord(recs, rule_name, identifier, t) ==
    IF rule_name \notin DOMAIN apiRules
    THEN [records |-> recs, allowed |-> TRUE]
    ELSE LET rule == apiRules[rule_name]
             key == ApiKey(rule_name, identifier)
             record == GetRecord(recs, key)
         IN  IF InCooldown(record, t)
             THEN [records |-> PutRecord(recs, key, record), allowed |-> FALSE]
             ELSE LET cleared == ClearExpiredBlock(record, t)
                      pruned == [cleared EXCEPT !.requests =
                                   CleanupOld(@, rule.window_seconds, t)]
                  IN  IF Len(pruned.requests) >= rule.max_requests
                      THEN [records |-> PutRecord(recs, key,
                                           ApplyCooldown(pruned, rule, t)),
                            allowed |-> FALSE]
                      ELSE [records |-> PutRecord(recs, key,
                                           [pruned EXCEPT
                                              !.requests = Append(@, t)]),
                            allowed |-> TRUE]

\* ------------------------------------------------- email_service.py
\* the four send operations
SendKinds == {"send_form_link", "send_form_pdf", "send_reset_email",
              "send_submission_notification"}

\* the recipients, users and source addresses the send operations are called with
SendAddresses == {"a@x"}
SendUserIds == {"u1"}
SendIpAddresses == {NoId}

\* no call in progress
IdleTask ==
    [kind |-> "none", to_email |-> NoId, user_id |-> NoId, ip_address |-> NoId,
     pc |-> "idle", checked |-> FALSE, allowed |-> FALSE, unsubscribed |-> FALSE,
     smtp |-> "none", recorded |-> 0, outcome |-> "none"]

\* send_reset_email has no user_id parameter and passes None to the limiter
LimiterUser(kind, user_id) == IF kind = "send_reset_email" THEN NoId ELSE user_id

\* how a call ends when an exception reaches the end of its body:
\* send_submission_notification prints it, the other three re-raise
OnException(kind) ==
    IF kind = "send_submission_notification" THEN "returned" ELSE "raised"

\* every send operation raising on a denial, as send_form_link does
OnDeniedMutRaise(kind) == "raised"

\* how a call ends when check_rate_limit denied:
\* send_submission_notification returns, the other three raise
OnDenied(kind) ==
    IF kind = "send_submission_notification" THEN "returned" ELSE "raised"

\* From the call to its first await, going on to the send after a denial
BeginSendMutIgnoreDenial(recs, kind, to_email, user_id, ip_address, t) ==
    LET out == CheckRateLimit(recs, to_email, LimiterUser(kind, user_id),
                              ip_address, t)
        task == [IdleTask EXCEPT !.kind = kind, !.to_email = to_email,
                                 !.user_id = LimiterUser(kind, user_id),
                                 !.ip_address = ip_address,
                                 !.checked = TRUE, !.allowed = TRUE]
    IN  [records |-> out.records,
         task |-> IF kind = "send_reset_email"
                  THEN [task EXCEPT !.pc = "smtp_send"]
                  ELSE [task EXCEPT !.pc = "check_unsubscribed"]]

\* From the call to its first await: check_rate_limit, then either the end
\* of the call (denied) or the await of check_unsubscribed (send_reset_email:
\* of aiosmtplib.send).
BeginSend(recs, kind, to_email, user_id, ip_address, t) ==
    LET out == CheckRateLimit(recs, to_email, LimiterUser(kind, user_id),
                              ip_address, t)
        task == [IdleTask EXCEPT !.kind = kind, !.to_email = to_email,
                                 !.user_id = LimiterUser(kind, user_id),
                                 !.ip_address = ip_address,
                                 !.checked = TRUE, !.allowed = out.allowed]
    IN  [records |-> out.records,
         task |-> IF ~out.allowed
                  THEN [task EXCEPT !.pc = "done", !.outcome = OnDenied(kind)]
                  ELSE IF kind = "send_reset_email"
                       THEN [task EXCEPT !.pc = "smtp_send"]
                       ELSE [task EXCEPT !.pc = "check_unsubscribed"]]

\* From the answer of check_unsubscribed to the await of aiosmtplib.send:
\* return when unsubscribed; building the message may raise (send_form_pdf
\* opens pdf_path, send_submission_notification formats the submission).
AfterUnsubscribed(task, found, built) ==
    IF found
    THEN [task EXCEPT !.unsubscribed = TRUE, !.pc = "done",
                      !.outcome = "returned"]
    ELSE IF ~built /\ task.kind \in {"send_form_pdf",
                                     "send_submission_notification"}
         THEN [task EXCEPT !.pc = "done", !.outcome = OnException(task.kind)]
         ELSE [task EXCEPT !.pc = "smtp_send"]

\* From the answer of aiosmtplib.send to the end of the call:
\* record_email_sent after a send that returned, the except clause otherwise.
\* record_email_sent moved out of the try block: it runs after a failed send too
AfterSmtpMutRecordAlways(recs, task, ok, t) ==
    [records |-> RecordEmailSent(recs, task.to_email, task.user_id,
                                 task.ip_address, t),
     task |-> [task EXCEPT !.smtp = IF ok THEN "ok" ELSE "failed",
                           !.recorded = @ + 1, !.pc = "done",
                           !.outcome = IF ok THEN "returned"
                                       ELSE OnException(task.kind)]]

AfterSmtp(recs, task, ok, t) ==
    IF ok
    THEN [records |-> RecordEmailSent(recs, task.to_email, task.user_id,
                                      task.ip_address, t),
          task |-> [task EXCEPT !.smtp = "ok", !.recorded = @ + 1,
                                !.pc = "done", !.outcome = "returned"]]
    ELSE [records |-> recs,
          task |-> [task EXCEPT !.smtp = "failed", !.pc = "done",
                                !.outcome = OnException(task.kind)]]

\* ------------------------------------------------------- memory_cache.py
\* The source sweeps at every 100th entry and is called with ttl of 600 to
\* 86400 s; the model keeps the shape on a few keys and clock units.
SweepEvery == 2
ShortTtl == 1

\* the keys, values and ttl MemoryCache is called with (ttl <= 0: no expiry)
MemKeys == {"k1", "k2", "k3"}
MemValues == {"v1", "v2"}
MemTtls == {0, ShortTtl}

\* the None a get returns on a miss
Absent == "None"

\* MemoryCache.enabled: set to True in __init__ and never assigned again
enabled == TRUE

\* _is_expired: set always writes the key 'expires_at', so the first test is
\* false and time.time() > item['expires_at'] is evaluated; with None on the
\* right Python raises TypeError
MemIsExpired(item, t) ==
    IF item.expires_at = None
    THEN [raised |-> TRUE, expired |-> FALSE]
    ELSE [raised |-> FALSE, expired |-> t > item.expires_at]

\* _cleanup_expired: the list of expired keys is built first (the comparison
\* raises TypeError on an item whose expires_at is None, before any
\* deletion), then the keys are deleted
MemCleanupExpired(cache, t) ==
    IF \E key \in DOMAIN cache : cache[key].expires_at = None
    THEN [raised |-> TRUE, cache |-> cache]
    ELSE [raised |-> FALSE,
          cache |-> [key \in {k \in DOMAIN cache : ~(t > cache[k].expires_at)}
                        |-> cache[key]]]

\* del self._cache[key]
MemWithout(cache, key) == [k \in DOMAIN cache \ {key} |-> cache[k]]

\* MemoryCache.get with >= for > in _is_expired
MemGetMutExpiresEarly(cache, key, t) ==
    IF ~enabled \/ key \notin DOMAIN cache
    THEN [cache |-> cache, value |-> Absent]
    ELSE IF cache[key].expires_at = None
         THEN [cache |-> cache, value |-> Absent]
         ELSE IF t >= cache[key].expires_at
              THEN [cache |-> MemWithout(cache, key), value |-> Absent]
              ELSE [cache |-> cache, value |-> cache[key].value]

\* MemoryCache.get: an exception inside the try block is printed and the
\* call returns None
MemGet(cache, key, t) ==
    IF ~enabled \/ key \notin DOMAIN cache
    THEN [cache |-> cache, value |-> Absent]
    ELSE LET e == MemIsExpired(cache[key], t)
         IN  IF e.raised
             THEN [cache |-> cache, value |-> Absent]
             ELSE IF e.expired
                  THEN [cache |-> MemWithout(cache, key), value |-> Absent]
                  ELSE [cache |-> cache, value |-> cache[key].value]

\* MemoryCache.set: an exception inside the try block (from the periodic
\* cleanup) is printed and the call returns False without storing
MemSet(cache, key, value, ttl, t) ==
    IF ~enabled
    THEN [cache |-> cache, ok |-> FALSE]
    ELSE LET swept == IF Cardinality(DOMAIN cache) % SweepEvery = 0
                      THEN MemCleanupExpired(cache, t)
                      ELSE [raised |-> FALSE, cache |-> cache]
             item == [value |-> value,
                      expires_at |-> IF ttl > 0 THEN t + ttl ELSE None,
                      created_at |-> t]
         IN  IF swept.raised
             THEN [cache |-> cache, ok |-> FALSE]
             ELSE [cache |-> [k \in DOMAIN swept.cache \cup {key} |->
                                 IF k = key THEN item ELSE swept.cache[k]],
                   ok |-> TRUE]

\* MemoryCache.delete
MemDelete(cache, key) ==
    IF ~enabled
    THEN [cache |-> cache, ok |-> FALSE]
    ELSE [cache |-> MemWithout(cache, key), ok |-> TRUE]

\* --------------------------------------------------------------- cache.py
\* openai_cache = SimpleCache(max_size=200, ttl_seconds=7200), on the scale
\* of the model
MaxSize == 2
TtlSeconds == 2
\* ttl = 1800 of cache_form_generation, on the scale of MaxTime
FormTtl == 2

\* the prompts, models and temperatures SimpleCache is called with
Prompts == {" Hi", "hi", "a", "b", "c"}
Models == {"gpt"}
Temperatures == {"0.2"}
CacheData == {"d1", "d2"}

\* prompt.lower().strip()
NormalizedPrompt(prompt) == IF prompt = " Hi" THEN "hi" ELSE prompt

\* SimpleCache._generate_key: str(hash(f"{normalized_prompt}:{model}:
\* {temperature}")); hash is taken to be free of collisions on the model's
\* inputs
SimpleGenerateKey(prompt, model, temperature) ==
    <<NormalizedPrompt(prompt), model, temperature>>

\* SimpleCache._is_expired with >= for >
SimpleIsExpiredMutEarly(item, t) ==
    IF item.expiry = None THEN TRUE ELSE t >= item.expiry

\* SimpleCache._is_expired
SimpleIsExpired(item, t) ==
    IF item.expiry = None THEN TRUE ELSE t > item.expiry

\* SimpleCache._cleanup_expired; the dict is the sequence of its items in
\* insertion order
SimpleCleanupExpired(cache, t) ==
    SelectSeq(cache, LAMBDA item : ~SimpleIsExpired(item, t))

\* position of key in the dict, 0 when it is not there
SimpleIndex(cache, key) ==
    IF \E n \in 1..Len(cache) : cache[n].key = key
    THEN CHOOSE n \in 1..Len(cache) : cache[n].key = key
    ELSE 0

\* del self.cache[key] at position n
SimpleWithout(cache, n) ==
    [m \in 1..(Len(cache) - 1) |-> IF m < n THEN cache[m] ELSE cache[m + 1]]

\* SimpleCache.get
SimpleGet(cache, prompt, model, temperature, t) ==
    LET key == SimpleGenerateKey(prompt, model, temperature)
        n == SimpleIndex(cache, key)
    IN  IF n = 0
        THEN [cache |-> cache, value |-> Absent]
        ELSE IF SimpleIsExpired(cache[n], t)
             THEN [cache |-> SimpleWithout(cache, n), value |-> Absent]
             ELSE [cache |-> [cache EXCEPT ![n].last_accessed = t],
                   value |-> cache[n].data]

\* min(self.cache.keys(), key=last_accessed): the first position, in
\* insertion order, of the smallest last_accessed
SimpleOldest(cache) ==
    CHOOSE n \in 1..Len(cache) :
        /\ \A m \in 1..Len(cache) : cache[n].last_accessed <= cache[m].last_accessed
        /\ \A m \in 1..(n - 1) : cache[m].last_accessed > cache[n].last_accessed

\* self.cache[key] = item: an existing key keeps its place, a new one is last
SimpleStore(cache, key, item) ==
    IF SimpleIndex(cache, key) = 0
    THEN Append(cache, item)
    ELSE [cache EXCEPT ![SimpleIndex(cache, key)] = item]

\* the eviction of set made only above max_size (> for >=)
SimpleMakeRoomMutEvictLate(cache, t) ==
    LET live == SimpleCleanupExpired(cache, t)
    IN  IF Len(live) > MaxSize
        THEN SimpleWithout(live, SimpleOldest(live))
        ELSE live

\* the eviction of set taking the most recently accessed item (max for min)
SimpleMakeRoomMutEvictNewest(cache, t) ==
    LET live == SimpleCleanupExpired(cache, t)
        newest == CHOOSE n \in 1..Len(live) :
                     \A m \in 1..Len(live) :
                         live[n].last_accessed >= live[m].last_accessed
    IN  IF Len(live) >= MaxSize
        THEN SimpleWithout(live, newest)
        ELSE live

\* SimpleCache.set up to the store: _cleanup_expired, then, if
\* len(self.cache) >= self.max_size, del self.cache[oldest_key]
SimpleMakeRoom(cache, t) ==
    LET live == SimpleCleanupExpired(cache, t)
    IN  IF Len(live) >= MaxSize
        THEN SimpleWithout(live, SimpleOldest(live))
        ELSE live

\* SimpleCache.set
SimpleSet(cache, prompt, model, temperature, data, t) ==
    LET key == SimpleGenerateKey(prompt, model, temperature)
    IN  SimpleStore(SimpleMakeRoom(cache, t), key,
                    [key |-> key, data |-> data,
                     expiry |-> t + TtlSeconds, last_accessed |-> t])

\* SimpleCache.clear leaving the item stored last in place
SimpleClearMutKeepLast(cache) ==
    IF cache = << >> THEN << >> ELSE <<cache[Len(cache)]>>

\* SimpleCache.clear
SimpleClear(cache) == << >>

\* SimpleCache.size
SimpleSize(cache) == Len(cache)

\* ------------------------------------------------- websocket_manager.py
\* the WebSocket objects of the connections, the users they authenticate as
\* and the rooms they name
Sockets == {"w1", "w2", "w3"}
WsUserIds == {"u1", "u2"}
Rooms == {"r1", "r2"}
\* room_id = None
NoRoom == "None"

\* x in s, for a list s
SeqContains(s, x) == \E n \in 1..Len(s) : s[n] = x

\* the elements of a list
SeqElements(s) == {s[n] : n \in 1..Len(s)}

\* list.remove(x): the list without the first occurrence of x
SeqRemove(s, x) ==
    LET n == CHOOSE n \in 1..Len(s) :
                 s[n] = x /\ \A m \in 1..(n - 1) : s[m] # x
    IN  SubSeq(s, 1, n - 1) \o SubSeq(s, n + 1, Len(s))

\* d[k] = v and del d[k], for a dict d
DictWith(d, k, v) == [x \in DOMAIN d \cup {k} |-> IF x = k THEN v ELSE d[x]]
DictWithout(d, k) == [x \in DOMAIN d \ {k} |-> d[x]]

\* the three dicts of a WebSocketManager
Manager(active, metadata, rooms) ==
    [active_connections |-> active,
     connection_metadata |-> metadata,
     room_subscriptions |-> rooms]

\* WebSocketManager.subscribe_to_room: the socket joins the room's list and
\* its metadata names the room joined last
SubscribeToRoom(m, websocket, room_id) ==
    LET subs == IF room_id \in DOMAIN m.room_subscriptions
                THEN m.room_subscriptions[room_id]
                ELSE << >>
    IN  IF SeqContains(subs, websocket)
        THEN m
        ELSE [m EXCEPT
                !.room_subscriptions =
                    DictWith(@, room_id, Append(subs, websocket)),
                !.connection_metadata =
                    IF websocket \in DOMAIN @
                    THEN [@ EXCEPT ![websocket].room_id = room_id]
                    ELSE @]

\* WebSocketManager.unsubscribe_from_room: the metadata is left as it is
UnsubscribeFromRoom(m, websocket, room_id) ==
    IF room_id \in DOMAIN m.room_subscriptions
       /\ SeqContains(m.room_subscriptions[room_id], websocket)
    THEN LET rest == SeqRemove(m.room_subscriptions[room_id], websocket)
         IN  [m EXCEPT !.room_subscriptions =
                           IF rest = << >>
                           THEN DictWithout(@, room_id)
                           ELSE DictWith(@, room_id, rest)]
    ELSE m

\* WebSocketManager.connect after websocket.accept(), up to the welcome
\* message: no await gives up the event loop in between
ConnectSocket(m, websocket, user_id, room_id) ==
    LET conns == IF user_id \in DOMAIN m.active_connections
                 THEN m.active_connections[user_id]
                 ELSE << >>
        m1 == [m EXCEPT
                 !.active_connections =
                     DictWith(@, user_id, Append(conns, websocket)),
                 !.connection_metadata =
                     DictWith(@, websocket,
                              [user_id |-> user_id, room_id |-> room_id])]
    IN  IF room_id # NoRoom
        THEN SubscribeToRoom(m1, websocket, room_id)
        ELSE m1

\* disconnect that leaves the user's key mapped to the empty list
DisconnectSocketMutKeepEmptyKey(m, websocket) ==
    IF websocket \notin DOMAIN m.connection_metadata
    THEN [m |-> m, raised |-> FALSE]
    ELSE LET user_id == m.connection_metadata[websocket].user_id
             room_id == m.connection_metadata[websocket].room_id
             listed == user_id \in DOMAIN m.active_connections
             rest == SeqRemove(m.active_connections[user_id], websocket)
             active == IF ~listed
                       THEN m.active_connections
                       ELSE DictWith(m.active_connections, user_id, rest)
             m1 == IF room_id # NoRoom
                   THEN UnsubscribeFromRoom(m, websocket, room_id)
                   ELSE m
         IN  IF listed /\ ~SeqContains(m.active_connections[user_id], websocket)
             THEN [m |-> m, raised |-> TRUE]
             ELSE [m |-> [m1 EXCEPT
                            !.active_connections = active,
                            !.connection_metadata = DictWithout(@, websocket)],
                   raised |-> FALSE]

\* WebSocketManager.disconnect: a socket without metadata is left alone; the
\* socket leaves its user's list and the one room its metadata names.
\* list.remove raises ValueError for a socket the user's list does not hold,
\* before anything was changed.
DisconnectSocket(m, websocket) ==
    IF websocket \notin DOMAIN m.connection_metadata
    THEN [m |-> m, raised |-> FALSE]
    ELSE LET user_id == m.connection_metadata[websocket].user_id
             room_id == m.connection_metadata[websocket].room_id
             listed == user_id \in DOMAIN m.active_connections
             rest == SeqRemove(m.active_connections[user_id], websocket)
             active == IF ~listed
                       THEN m.active_connections
                       ELSE IF rest = << >>
                            THEN DictWithout(m.active_connections, user_id)
                            ELSE DictWith(m.active_connections, user_id, rest)
             m1 == IF room_id # NoRoom
                   THEN UnsubscribeFromRoom(m, websocket, room_id)
                   ELSE m
         IN  IF listed /\ ~SeqContains(m.active_connections[user_id], websocket)
             THEN [m |-> m, raised |-> TRUE]
             ELSE [m |-> [m1 EXCEPT
                            !.active_connections = active,
                            !.connection_metadata = DictWithout(@, websocket)],
                   raised |-> FALSE]

\* the second loop of send_to_user: disconnect of every socket whose send
\* failed, in the order of the failures
RECURSIVE DisconnectAll(_, _)
DisconnectAll(m, failed) ==
    IF failed = << >>
    THEN m
    ELSE DisconnectAll(DisconnectSocket(m, Head(failed)).m, Tail(failed))

\* no send_to_user in progress
IdleSender ==
    [pc |-> "idle", user_id |-> "", index |-> 0, current |-> "",
     detached |-> FALSE, failed |-> << >>, attempted |-> << >>,
     stayed |-> {}]

\* The list iterator of the first loop of send_to_user: it reads the list
\* object bound at the start of the loop at its own index.  The list the
\* iterator holds is the user's list as long as the key was not deleted; a
\* deleted list is empty and stays empty.
IteratedList(m, s) ==
    IF s.detached \/ s.user_id \notin DOMAIN m.active_connections
    THEN << >>
    ELSE m.active_connections[s.user_id]

\* What a change of the manager by another task means for a send_to_user in
\* progress: the iterator loses its list when the user's key is deleted, and
\* a socket that lost its registration did not stay for the whole call.
SenderAfter(s, m) ==
    IF s.pc # "awaiting"
    THEN s
    ELSE [s EXCEPT
            !.detached = @ \/ s.user_id \notin DOMAIN m.active_connections,
            !.stayed = @ \cap DOMAIN m.connection_metadata]

\* ------------------------------------------------------ form_generator.py
\* the prompts of the calls: one that asks for content, one for a form
GenPrompts == {"Write a song", "Create a contact form"}

\* max_attempts of generate_form_html and of generate_content_html
MaxAttempts == 2

\* what an awaited client.chat.completions.create under asyncio.wait_for ends
\* with: a response holding HTML, a response without a tag of HTML, the
\* timeout of wait_for, any other exception
LlmOutcomes == {"html", "no_html", "timeout", "error"}

\* the pages of the LLM and the static pages of generate_fallback_form and
\* generate_fallback_content
LlmPages == {"llm_form", "llm_content"}
FallbackPages == {"fallback_form", "fallback_content"}

\* detect_language_fast: none of the prompts holds a Hebrew letter
DetectLanguageFast(prompt) == "en"

\* classify_request_type: 'write' and 'song' are content keywords and are
\* looked for first; 'contact' and 'form' are form keywords
ClassifyRequestType(prompt) ==
    IF prompt = "Write a song" THEN "content" ELSE "form"

\* MemoryCache._generate_key("form_gen", {"prompt": prompt, "lang": lang}):
\* the md5 digest of the pair, one key per pair
FormGenKey(prompt, lang) ==
    IF prompt = "Write a song"
    THEN IF lang = "en" THEN "form_gen:song:en" ELSE "form_gen:song:he"
    ELSE IF lang = "en" THEN "form_gen:contact:en" ELSE "form_gen:contact:he"

\* what one attempt of a generator came to: the call goes on with another
\* attempt, or it ended with a page or with an exception
Retry == [done |-> FALSE, html |-> Absent, raised |-> FALSE]
Page(html) == [done |-> TRUE, html |-> html, raised |-> FALSE]
Raised == [done |-> TRUE, html |-> Absent, raised |-> TRUE]

\* generate_form_html that lets the last timeout out to the caller
GenerateFormHtmlMutRaise(attempt, outcome) ==
    IF outcome = "timeout"
    THEN IF attempt = MaxAttempts - 1
         THEN Raised
         ELSE Retry
    ELSE IF outcome = "error"
         THEN Page("fallback_form")
         ELSE IF outcome = "no_html"
              THEN Page("fallback_form")
              ELSE Page("llm_form")

\* generate_form_html at the end of attempt number `attempt` (from 0): a
\* timeout of the last attempt returns the fallback form, an earlier timeout
\* retries, any other exception returns the fallback form, a response
\* without HTML returns the fallback form
GenerateFormHtml(attempt, outcome) ==
    IF outcome = "timeout"
    THEN IF attempt = MaxAttempts - 1
         THEN Page("fallback_form")
         ELSE Retry
    ELSE IF outcome = "error"
         THEN Page("fallback_form")
         ELSE IF outcome = "no_html"
              THEN Page("fallback_form")
              ELSE Page("llm_form")

\* generate_content_html at the end of attempt number `attempt`: as the form
\* generator, but a response without an <html tag is wrapped into a page
GenerateContentHtml(attempt, outcome) ==
    IF outcome = "timeout"
    THEN IF attempt = MaxAttempts - 1
         THEN Page("fallback_content")
         ELSE Retry
    ELSE IF outcome = "error"
         THEN Page("fallback_content")
         ELSE Page("llm_content")

\* no generate_html_only in progress
IdleGeneration ==
    [pc |-> "idle", prompt |-> "", lang |-> "", kind |-> "", attempt |-> 0,
     llm_calls |-> 0, html |-> Absent, raised |-> FALSE, last |-> ""]

\* ------------------------------------------------------------------ state
\* the calls that can be in progress at once
Tasks == {"t1", "t2"}

VARIABLES
    now,         \* time.time()
    records,     \* email_rate_limiter._records: key -> RateLimitRecord
    apiRecords,  \* api_rate_limiter._records: key -> RateLimitRecord
    result,      \* the last direct call of check_rate_limit, record_email_sent
                 \* or check_and_record: the flag it returned and when
    tasks,       \* the calls of the send operations in progress on the event loop
    memCache,    \* memory_cache.cache._cache: key -> item
    simpleCache, \* openai_cache.cache: the items in insertion order
    cacheOut,    \* the last call on a cache and what it returned
    activeConnections,  \* websocket_manager.active_connections: user -> list
    connectionMetadata, \* websocket_manager.connection_metadata: socket -> dict
    roomSubscriptions,  \* websocket_manager.room_subscriptions: room -> list
    endpoints,   \* where the websocket_endpoint task of each socket stands
    sender,      \* the call of send_to_user in progress: its iterator, the
                 \* sockets it tried, and those registered throughout
    wsOut,       \* the last call on the WebSocketManager
    generations  \* the calls of generate_html_only in progress

cacheVars == <<memCache, simpleCache, cacheOut>>

wsVars == <<activeConnections, connectionMetadata, roomSubscriptions, endpoints,
            sender, wsOut>>

genVars == <<generations>>

\* the calls of generate_html_only that can be in progress at once
GenTasks == {"g1", "g2"}

vars == <<now, records, apiRecords, result, tasks, memCache, simpleCache, cacheOut,
          activeConnections, connectionMetadata, roomSubscriptions, endpoints,
          sender, wsOut, generations>>

\* (allowed, reason) of a call, the flag of it, and the time of the call
Returned(op, allowed, t) == [op |-> op, allowed |-> allowed, at |-> t]

\* the keys of the items SimpleCache holds
SimpleKeys(cache) == {cache[n].key : n \in 1..Len(cache)}

\* a call on a cache: the method, its key, what it returned and the keys
\* whose items it deleted from the map
CacheReturned(op, key, value, removed) ==
    [op |-> op, key |-> key, value |-> value, removed |-> removed]

\* a call on the manager: the method, its socket, whether the socket had
\* metadata when the call began, and whether the call raised
WsReturned(op, websocket, known, raised) ==
    [op |-> op, websocket |-> websocket, known |-> known, raised |-> raised]

Init ==
    /\ now = 0
    /\ records = << >>
    /\ apiRecords = << >>
    /\ result = Returned("init", TRUE, 0)
    /\ tasks = [p \in Tasks |-> IdleTask]
    /\ memCache = << >>
    /\ simpleCache = << >>
    /\ cacheOut = CacheReturned("init", "", Absent, {})
    /\ activeConnections = << >>
    /\ connectionMetadata = << >>
    /\ roomSubscriptions = << >>
    /\ endpoints = [w \in Sockets |-> "new"]
    /\ sender = IdleSender
    /\ wsOut = WsReturned("init", "", FALSE, FALSE)
    /\ generations = [g \in GenTasks |-> IdleGeneration]

\* time.time() moves on
Tick ==
    /\ now < MaxTime
    /\ now' = now + 1
    /\ UNCHANGED <<records, apiRecords, result, tasks, cacheVars, wsVars, genVars>>

\* a call of email_rate_limiter.check_rate_limit
Check(email_address, user_id, ip_address) ==
    LET out == CheckRateLimit(records, email_address, user_id, ip_address, now)
    IN  /\ records' = out.records
        /\ result' = Returned("check", out.allowed, now)
        /\ UNCHANGED <<now, apiRecords, tasks, cacheVars, wsVars, genVars>>

\* a call of email_rate_limiter.record_email_sent; a direct call is made only
\* on records that hold fewer than max_requests timestamps (the source never
\* refuses one: this keeps the lists of the model finite; the send operations
\* below record without this guard)
Record(email_address, user_id, ip_address) ==
    /\ \A i \in 1..Len(Checks(email_address, user_id, ip_address)) :
          LET c == Checks(email_address, user_id, ip_address)[i]
          IN  Len(GetRecord(records, GenerateKey(c[1], c[2])).requests)
                  < rules[c[1]].max_requests
    /\ records' = RecordEmailSent(records, email_address, user_id, ip_address, now)
    /\ result' = Returned("record", TRUE, now)
    /\ UNCHANGED <<now, apiRecords, tasks, cacheVars, wsVars, genVars>>

\* a call of email_rate_limiter.get_rate_limit_status (the dict it returns
\* is read off the records)
Status(email_address, user_id) ==
    /\ records' = GetRateLimitStatus(records, email_address, user_id, now)
    /\ UNCHANGED <<now, apiRecords, result, tasks, cacheVars, wsVars, genVars>>

\* a run of email_rate_limiter.cleanup_expired_records (it contains no await)
Cleanup ==
    /\ records' = CleanupExpiredRecords(records, now)
    /\ result' = Returned("cleanup", TRUE, now)
    /\ UNCHANGED <<now, apiRecords, tasks, cacheVars, wsVars, genVars>>

\* a call of api_rate_limiter.check_and_record
ApiCheckAndRecord(rule_name, identifier) ==
    LET out == CheckAndRecord(apiRecords, rule_name, identifier, now)
    IN  /\ apiRecords' = out.records
        /\ result' = Returned("check_and_record", out.allowed, now)
        /\ UNCHANGED <<now, records, tasks, cacheVars, wsVars, genVars>>

\* a send operation is called and runs to its first await
StartSend(p, kind, to_email, user_id, ip_address) ==
    /\ tasks[p].pc = "idle"
    /\ LET out == BeginSend(records, kind, to_email, user_id, ip_address, now)
       IN  /\ records' = out.records
           /\ tasks' = [tasks EXCEPT ![p] = out.task]
    /\ UNCHANGED <<now, apiRecords, result, cacheVars, wsVars, genVars>>

\* check_unsubscribed answers and the call runs to its next await
UnsubscribedAnswer(p, found, built) ==
    /\ tasks[p].pc = "check_unsubscribed"
    /\ tasks' = [tasks EXCEPT ![p] = AfterUnsubscribed(tasks[p], found, built)]
    /\ UNCHANGED <<now, records, apiRecords, result, cacheVars, wsVars, genVars>>

\* aiosmtplib.send returns or raises and the call runs to its end
SmtpAnswer(p, ok) ==
    /\ tasks[p].pc = "smtp_send"
    /\ LET out == AfterSmtp(records, tasks[p], ok, now)
       IN  /\ records' = out.records
           /\ tasks' = [tasks EXCEPT ![p] = out.task]
    /\ UNCHANGED <<now, apiRecords, result, cacheVars, wsVars, genVars>>

\* the caller has the outcome; the coroutine is gone
EndSend(p) ==
    /\ tasks[p].pc = "done"
    /\ tasks' = [tasks EXCEPT ![p] = IdleTask]
    /\ UNCHANGED <<now, records, apiRecords, result, cacheVars, wsVars, genVars>>

\* a call of cache.get of memory_cache.py
MemCacheGet(key) ==
    LET out == MemGet(memCache, key, now)
    IN  /\ memCache' = out.cache
        /\ cacheOut' = CacheReturned("mem_get", key, out.value,
                                     DOMAIN memCache \ DOMAIN out.cache)
        /\ UNCHANGED <<now, records, apiRecords, result, tasks, simpleCache,
                   wsVars, genVars>>

\* a call of cache.set of memory_cache.py
MemCacheSet(key, value, ttl) ==
    LET out == MemSet(memCache, key, value, ttl, now)
    IN  /\ memCache' = out.cache
        /\ cacheOut' = CacheReturned("mem_set", key,
                                     IF out.ok THEN "True" ELSE "False",
                                     DOMAIN memCache \ DOMAIN out.cache)
        /\ UNCHANGED <<now, records, apiRecords, result, tasks, simpleCache,
                   wsVars, genVars>>

\* a call of cache.delete of memory_cache.py
MemCacheDelete(key) ==
    LET out == MemDelete(memCache, key)
    IN  /\ memCache' = out.cache
        /\ cacheOut' = CacheReturned("mem_delete", key,
                                     IF out.ok THEN "True" ELSE "False",
                                     DOMAIN memCache \ DOMAIN out.cache)
        /\ UNCHANGED <<now, records, apiRecords, result, tasks, simpleCache,
                   wsVars, genVars>>

\* a call of openai_cache.get
SimpleCacheGet(prompt, model, temperature) ==
    LET out == SimpleGet(simpleCache, prompt, model, temperature, now)
    IN  /\ simpleCache' = out.cache
        /\ cacheOut' = CacheReturned("get", NormalizedPrompt(prompt), out.value,
                                     SimpleKeys(simpleCache) \ SimpleKeys(out.cache))
        /\ UNCHANGED <<now, records, apiRecords, result, tasks, memCache,
                   wsVars, genVars>>

\* a call of openai_cache.set (it returns None)
SimpleCacheSet(prompt, model, temperature, data) ==
    /\ simpleCache' = SimpleSet(simpleCache, prompt, model, temperature, data, now)
    /\ cacheOut' = CacheReturned("set", NormalizedPrompt(prompt), Absent,
                                 SimpleKeys(simpleCache)
                                     \ SimpleKeys(SimpleMakeRoom(simpleCache, now)))
    /\ UNCHANGED <<now, records, apiRecords, result, tasks, memCache,
                   wsVars, genVars>>

\* a call of openai_cache.clear (it returns None)
SimpleCacheClear ==
    /\ simpleCache' = SimpleClear(simpleCache)
    /\ cacheOut' = CacheReturned("clear", "", Absent, SimpleKeys(simpleCache))
    /\ UNCHANGED <<now, records, apiRecords, result, tasks, memCache,
                   wsVars, genVars>>

\* the WebSocketManager as the three dicts stand
CurrentManager ==
    Manager(activeConnections, connectionMetadata, roomSubscriptions)

\* the dicts after a call of a task other than the one in send_to_user
SetManager(m) ==
    /\ activeConnections' = m.active_connections
    /\ connectionMetadata' = m.connection_metadata
    /\ roomSubscriptions' = m.room_subscriptions
    /\ sender' = SenderAfter(sender, m)

\* websocket_endpoint up to its receive loop: connect registers the socket
\* (the welcome message is the first SendPersonalMessage of the socket)
Connect(websocket, user_id, room_id) ==
    /\ endpoints[websocket] = "new"
    /\ endpoints' = [endpoints EXCEPT ![websocket] = "running"]
    /\ SetManager(ConnectSocket(CurrentManager, websocket, user_id, room_id))
    /\ wsOut' = WsReturned("connect", websocket, FALSE, FALSE)
    /\ UNCHANGED <<now, records, apiRecords, result, tasks, cacheVars, genVars>>

\* handle_client_message on a subscribe_room message
SubscribeRoom(websocket, room_id) ==
    /\ endpoints[websocket] = "running"
    /\ SetManager(SubscribeToRoom(CurrentManager, websocket, room_id))
    /\ wsOut' = WsReturned("subscribe_to_room", websocket,
                           websocket \in DOMAIN connectionMetadata, FALSE)
    /\ UNCHANGED <<now, records, apiRecords, result, tasks, cacheVars, genVars,
                   endpoints>>

\* handle_client_message on an unsubscribe_room message
UnsubscribeRoom(websocket, room_id) ==
    /\ endpoints[websocket] = "running"
    /\ SetManager(UnsubscribeFromRoom(CurrentManager, websocket, room_id))
    /\ wsOut' = WsReturned("unsubscribe_from_room", websocket,
                           websocket \in DOMAIN connectionMetadata, FALSE)
    /\ UNCHANGED <<now, records, apiRecords, result, tasks, cacheVars, genVars,
                   endpoints>>

\* send_personal_message whose send_text raised (the welcome message, a pong
\* or an acknowledgement of the socket's endpoint): the socket is disconnected
SendPersonalMessageFailed(websocket) ==
    LET out == DisconnectSocket(CurrentManager, websocket)
    IN  /\ endpoints[websocket] = "running"
        /\ SetManager(out.m)
        /\ wsOut' = WsReturned("disconnect", websocket,
                               websocket \in DOMAIN connectionMetadata,
                               out.raised)
        /\ UNCHANGED <<now, records, apiRecords, result, tasks, cacheVars,
                       genVars, endpoints>>

\* websocket_endpoint leaves its receive loop on an exception and calls
\* disconnect
EndpointDisconnect(websocket) ==
    LET out == DisconnectSocket(CurrentManager, websocket)
    IN  /\ endpoints[websocket] = "running"
        /\ endpoints' = [endpoints EXCEPT ![websocket] = "ended"]
        /\ SetManager(out.m)
        /\ wsOut' = WsReturned("disconnect", websocket,
                               websocket \in DOMAIN connectionMetadata,
                               out.raised)
        /\ UNCHANGED <<now, records, apiRecords, result, tasks, cacheVars,
                       genVars>>

\* send_to_user from one send_text to the next: the iterator yields the
\* element at its index of the list it holds, or the loop is over and the
\* sockets whose send failed are disconnected, after which the call returns
AdvanceSender(m, s) ==
    LET list == IteratedList(m, s)
    IN  IF s.index < Len(list)
        THEN [m |-> m,
              sender |-> [s EXCEPT !.pc = "awaiting",
                                   !.current = list[s.index + 1],
                                   !.index = @ + 1]]
        ELSE LET m1 == DisconnectAll(m, s.failed)
             IN  [m |-> m1,
                  sender |-> [s EXCEPT
                                !.pc = "returned",
                                !.current = "",
                                !.stayed = @ \cap DOMAIN m1.connection_metadata]]

\* a call of send_to_user, up to its first await of send_text
SendToUser(user_id) ==
    LET m == CurrentManager
        begun == [IdleSender EXCEPT
                    !.user_id = user_id,
                    !.stayed = IF user_id \in DOMAIN activeConnections
                               THEN SeqElements(activeConnections[user_id])
                                    \cap DOMAIN connectionMetadata
                               ELSE {}]
        out == IF user_id \notin DOMAIN activeConnections
               THEN [m |-> m, sender |-> [begun EXCEPT !.pc = "returned"]]
               ELSE AdvanceSender(m, begun)
    IN  /\ sender.pc \in {"idle", "returned"}
        /\ sender' = out.sender
        /\ activeConnections' = out.m.active_connections
        /\ connectionMetadata' = out.m.connection_metadata
        /\ roomSubscriptions' = out.m.room_subscriptions
        /\ wsOut' = WsReturned("send_to_user", "", FALSE, FALSE)
        /\ UNCHANGED <<now, records, apiRecords, result, tasks, cacheVars,
                       genVars, endpoints>>

\* the awaited send_text of send_to_user ends, with or without an exception
SendTextAnswer(ok) ==
    LET sent == [sender EXCEPT
                   !.attempted = Append(@, sender.current),
                   !.failed = IF ok THEN @ ELSE Append(@, sender.current)]
        out == AdvanceSender(CurrentManager, sent)
    IN  /\ sender.pc = "awaiting"
        /\ sender' = out.sender
        /\ activeConnections' = out.m.active_connections
        /\ connectionMetadata' = out.m.connection_metadata
        /\ roomSubscriptions' = out.m.room_subscriptions
        /\ wsOut' = WsReturned("send_text", sender.current, FALSE, FALSE)
        /\ UNCHANGED <<now, records, apiRecords, result, tasks, cacheVars,
                       genVars, endpoints>>

\* a call of generate_html_only, up to its first await of the LLM: a page
\* the memory cache holds is returned, otherwise the request is classified
\* and the first attempt begins
GenerateHtmlOnly(g, prompt) ==
    LET lang == DetectLanguageFast(prompt)
        cached == MemGet(memCache, FormGenKey(prompt, lang), now)
        begun == [IdleGeneration EXCEPT !.prompt = prompt, !.lang = lang]
    IN  /\ generations[g].pc \in {"idle", "returned"}
        /\ memCache' = cached.cache
        /\ generations' =
              [generations EXCEPT ![g] =
                  IF cached.value # Absent
                  THEN [begun EXCEPT !.pc = "returned",
                                     !.html = cached.value,
                                     !.last = "cached"]
                  ELSE [begun EXCEPT !.pc = "awaiting",
                                     !.kind = ClassifyRequestType(prompt),
                                     !.llm_calls = 1]]
        /\ UNCHANGED <<now, records, apiRecords, result, tasks, simpleCache,
                       cacheOut, wsVars>>

\* the awaited LLM call of a generation ends: the generator retries or
\* returns its page, which generate_html_only stores in the memory cache and
\* returns
LlmAnswer(g, outcome) ==
    LET gen == generations[g]
        out == IF gen.kind = "content"
               THEN GenerateContentHtml(gen.attempt, outcome)
               ELSE GenerateFormHtml(gen.attempt, outcome)
        stored == MemSet(memCache, FormGenKey(gen.prompt, gen.lang),
                         out.html, FormTtl, now)
    IN  /\ gen.pc = "awaiting"
        /\ generations' =
              [generations EXCEPT ![g] =
                  IF out.done
                  THEN [gen EXCEPT !.pc = "returned",
                                   !.html = out.html,
                                   !.raised = out.raised,
                                   !.last = outcome]
                  ELSE [gen EXCEPT !.attempt = @ + 1,
                                   !.llm_calls = @ + 1,
                                   !.last = outcome]]
        /\ memCache' = IF out.done /\ ~out.raised
                       THEN stored.cache
                       ELSE memCache
        /\ UNCHANGED <<now, records, apiRecords, result, tasks, simpleCache,
                       cacheOut, wsVars>>

\* The email limiter under direct calls, all four rules in play.
Next ==
    \/ Tick
    \/ \E a \in Addresses, u \in UserIds, i \in IpAddresses : Check(a, u, i)
    \/ \E a \in Addresses, u \in UserIds, i \in IpAddresses : Record(a, u, i)

Spec == Init /\ [][Next]_vars

\* Both limiters under direct calls of check, record and check_and_record.
NextLimiters ==
    \/ Tick
    \/ \E a \in Addresses : Check(a, NoId, NoId)
    \/ \E a \in Addresses : Record(a, NoId, NoId)
    \/ \E r \in ApiRuleNames, id \in ApiIdentifiers : ApiCheckAndRecord(r, id)

SpecLimiters == Init /\ [][NextLimiters]_vars

\* The email limiter with its monitoring call and its periodic cleanup.
NextCleanup ==
    \/ Tick
    \/ \E a \in Addresses : Check(a, NoId, NoId)
    \/ \E a \in Addresses : Record(a, NoId, NoId)
    \/ \E a \in Addresses : Status(a, NoId)
    \/ Cleanup

SpecCleanup == Init /\ [][NextCleanup]_vars

\* The send operations as concurrent tasks of the event loop, with the
\* monitoring call get_rate_limit_status between their steps.
NextSend ==
    \/ Tick
    \/ \E p \in Tasks, k \in SendKinds, a \in SendAddresses,
          u \in SendUserIds, i \in SendIpAddresses : StartSend(p, k, a, u, i)
    \/ \E p \in Tasks, found \in BOOLEAN, built \in BOOLEAN :
          UnsubscribedAnswer(p, found, built)
    \/ \E p \in Tasks, ok \in BOOLEAN : SmtpAnswer(p, ok)
    \/ \E p \in Tasks : EndSend(p)
    \/ \E a \in SendAddresses, u \in SendUserIds : Status(a, u)

SpecSend == Init /\ [][NextSend]_vars

\* MemoryCache under calls of get, set and delete.
NextMemoryCache ==
    \/ Tick
    \/ \E k \in MemKeys : MemCacheGet(k)
    \/ \E k \in MemKeys, v \in MemValues, ttl \in MemTtls : MemCacheSet(k, v, ttl)
    \/ \E k \in MemKeys : MemCacheDelete(k)

SpecMemoryCache == Init /\ [][NextMemoryCache]_vars

\* SimpleCache under calls of get, set and clear.
NextSimpleCache ==
    \/ Tick
    \/ \E q \in Prompts, m \in Models, c \in Temperatures : SimpleCacheGet(q, m, c)
    \/ \E q \in Prompts, m \in Models, c \in Temperatures, d \in CacheData :
          SimpleCacheSet(q, m, c, d)
    \/ SimpleCacheClear

SpecSimpleCache == Init /\ [][NextSimpleCache]_vars

\* Both caches side by side, each on a part of its inputs.
CacheKeys == {"k1"}
CachePrompts == {" Hi", "hi", "a"}

NextCache ==
    \/ Tick
    \/ \E k \in CacheKeys : MemCacheGet(k)
    \/ \E k \in CacheKeys, v \in MemValues, ttl \in MemTtls : MemCacheSet(k, v, ttl)
    \/ \E q \in CachePrompts, m \in Models, c \in Temperatures :
          SimpleCacheGet(q, m, c)
    \/ \E q \in CachePrompts, m \in Models, c \in Temperatures :
          SimpleCacheSet(q, m, c, "d1")

SpecCache == Init /\ [][NextCache]_vars

\* The WebSocketManager under the endpoints of two sockets, with the rooms.
ConnectRooms == {NoRoom, "r1"}
RoomSockets == {"w1", "w2"}

NextWebSocket ==
    \/ \E w \in RoomSockets, u \in WsUserIds, r \in ConnectRooms : Connect(w, u, r)
    \/ \E w \in RoomSockets, r \in Rooms : SubscribeRoom(w, r)
    \/ \E w \in RoomSockets, r \in Rooms : UnsubscribeRoom(w, r)
    \/ \E w \in RoomSockets : SendPersonalMessageFailed(w)
    \/ \E w \in RoomSockets : EndpointDisconnect(w)

SpecWebSocket == Init /\ [][NextWebSocket]_vars

\* A task in send_to_user while the endpoints of the sockets connect and
\* disconnect.
NextSendToUser ==
    \/ \E w \in Sockets, u \in WsUserIds : Connect(w, u, NoRoom)
    \/ \E w \in Sockets : SendPersonalMessageFailed(w)
    \/ \E w \in Sockets : EndpointDisconnect(w)
    \/ \E u \in WsUserIds : SendToUser(u)
    \/ \E ok \in BOOLEAN : SendTextAnswer(ok)

SpecSendToUser == Init /\ [][NextSendToUser]_vars

\* generate_html_only as concurrent tasks of the event loop over the memory
\* cache.
NextGenerator ==
    \/ Tick
    \/ \E g \in GenTasks, q \in GenPrompts : GenerateHtmlOnly(g, q)
    \/ \E g \in GenTasks, o \in LlmOutcomes : LlmAnswer(g, o)

SpecGenerator == Init /\ [][NextGenerator]_vars

\* asyncio.wait_for ends every awaited LLM call
SpecGeneratorLive ==
    /\ SpecGenerator
    /\ \A g \in GenTasks : WF_vars(\E o \in LlmOutcomes : LlmAnswer(g, o))

\* ================================================================ claims
\* What the claims speak of, stated on the records and not by the code's steps.

\* the rules a call with these arguments is subject to, in the claimed order
ExpectedRules(email_address, user_id, ip_address) ==
    << <<"email_per_address", email_address>>, <<"email_global", GlobalId>> >>
    \o (IF user_id = NoId THEN <<>> ELSE << <<"email_per_user", user_id>> >>)
    \o (IF ip_address = NoId THEN <<>> ELSE << <<"email_per_ip", ip_address>> >>)

\* the record the limiter keeps for a (rule, identifier) pair
RecAt(recs, c) == GetRecord(recs, GenerateKey(c[1], c[2]))

\* the number of timestamps newer than t - window_seconds
CountInWindow(record, rule, t) ==
    Cardinality({n \in 1..Len(record.requests) :
                    record.requests[n] > t - rule.window_seconds})

\* the timestamps newer than t - window_seconds, in order
InWindow(record, rule, t) ==
    SelectSeq(record.requests, LAMBDA x : t - x < rule.window_seconds)

\* a cooldown is active at t
Blocked(record, t) == record.blocked_until # None /\ record.blocked_until > t

\* the rule lets a request through at t
RuleAllows(record, rule, t) ==
    ~Blocked(record, t) /\ CountInWindow(record, rule, t) < rule.max_requests

\* key k is mapped the same way by both registries
SameEntry(recs1, recs2, k) ==
    /\ (k \in DOMAIN recs1) <=> (k \in DOMAIN recs2)
    /\ k \in DOMAIN recs1 => recs1[k] = recs2[k]

EmailKeys ==
    {GenerateKey("email_per_address", a) : a \in Addresses}
    \cup {GenerateKey("email_global", GlobalId)}
    \cup {GenerateKey("email_per_user", u) : u \in UserIds \ {NoId}}
    \cup {GenerateKey("email_per_ip", i) : i \in IpAddresses \ {NoId}}

\* C1: whenever the record of some applicable rule holds at least
\* max_requests timestamps newer than now - window_seconds,
\* check_rate_limit returns allowed = false.
C1_DeniedAtCapacity ==
    \A a \in Addresses, u \in UserIds, i \in IpAddresses :
        (\E j \in 1..Len(ExpectedRules(a, u, i)) :
            LET c == ExpectedRules(a, u, i)[j]
            IN  CountInWindow(RecAt(records, c), rules[c[1]], now)
                    >= rules[c[1]].max_requests)
        => ~CheckRateLimit(records, a, u, i, now).allowed

\* a check made now was denied by a record that reached capacity now
C1_Witness ==
    /\ result.op = "check" /\ ~result.allowed /\ result.at = now
    /\ \E a \in Addresses :
          LET c == <<"email_per_address", a>>
          IN  /\ CountInWindow(RecAt(records, c), rules[c[1]], now)
                     >= rules[c[1]].max_requests
              /\ RecAt(records, c).blocked_until
                     = now + rules[c[1]].cooldown_seconds

\* C3: with no cooldown active on any applicable record and no timestamp
\* recorded during the last window_seconds (one exactly window_seconds old
\* does not count), check_rate_limit returns allowed = true.
C3_AllowedAfterWindow ==
    \A a \in Addresses, u \in UserIds, i \in IpAddresses :
        (\A j \in 1..Len(ExpectedRules(a, u, i)) :
            LET c == ExpectedRules(a, u, i)[j]
                record == RecAt(records, c)
            IN  /\ ~Blocked(record, now)
                /\ \A n \in 1..Len(record.requests) :
                      record.requests[n] <= now - rules[c[1]].window_seconds)
        => CheckRateLimit(records, a, u, i, now).allowed

\* an address that was blocked at capacity has been checked again, allowed,
\* after its window and its cooldown passed (no other address was ever used)
C3_Witness ==
    /\ result.op = "check" /\ result.allowed /\ result.at = now
    /\ \E a \in Addresses :
          /\ GenerateKey("email_per_address", a) \in DOMAIN records
          /\ RecAt(records, <<"email_per_address", a>>).total_blocked >= 1
          /\ RecAt(records, <<"email_per_address", a>>).blocked_until = None
          /\ RecAt(records, <<"email_per_address", a>>).requests = <<>>
          /\ \A b \in Addresses \ {a} :
                GenerateKey("email_per_address", b) \notin DOMAIN records

\* C4: check_rate_limit appends no timestamp: the timestamps inside the
\* window of every record are the same before and after a check, and a check
\* that was allowed is allowed again at any later time while nothing is
\* recorded.
C4_CheckAppendsNothing ==
    \A a \in Addresses, u \in UserIds, i \in IpAddresses :
        LET out == CheckRateLimit(records, a, u, i, now)
        IN  /\ \A k \in EmailKeys :
                  LET rule == rules[k[1]]
                  IN  InWindow(GetRecord(out.records, k), rule, now)
                          = InWindow(GetRecord(records, k), rule, now)
            /\ out.allowed =>
                  \A t \in now..MaxTime :
                      CheckRateLimit(out.records, a, u, i, t).allowed

\* a check was allowed while the window of the global record was not empty
C4_Witness ==
    /\ result.op = "check" /\ result.allowed /\ result.at = now
    /\ CountInWindow(RecAt(records, <<"email_global", GlobalId>>),
                     rules["email_global"], now) >= 1

\* C6: check_rate_limit allows iff every applicable rule allows; the rules
\* are taken in the order address, global, user, IP, and the records of the
\* rules after the first one that disallows, like those of the rules that do
\* not apply, are neither created nor changed.
C6_ConjunctionInOrder ==
    \A a \in Addresses, u \in UserIds, i \in IpAddresses :
        LET cs == ExpectedRules(a, u, i)
            out == CheckRateLimit(records, a, u, i, now)
            denying == {j \in 1..Len(cs) :
                           ~RuleAllows(RecAt(records, cs[j]), rules[cs[j][1]], now)}
            first == CHOOSE j \in denying : \A j2 \in denying : j <= j2
            read == IF denying = {} THEN 1..Len(cs) ELSE 1..first
        IN  /\ out.allowed <=> denying = {}
            /\ \A k \in (EmailKeys \cup DOMAIN records \cup DOMAIN out.records)
                        \ {GenerateKey(cs[j][1], cs[j][2]) : j \in read} :
                  SameEntry(records, out.records, k)
            /\ \A j \in read : GenerateKey(cs[j][1], cs[j][2]) \in DOMAIN out.records

\* a check made now was denied by the per-user rule while the per-IP record
\* still holds a timestamp that a pass over it would have pruned
C6_Witness ==
    /\ result.op = "check" /\ ~result.allowed /\ result.at = now
    /\ RecAt(records, <<"email_per_user", "u1">>).blocked_until
           = now + rules["email_per_user"].cooldown_seconds
    /\ LET ip == RecAt(records, <<"email_per_ip", "ip1">>)
       IN  ip.requests # <<>>
           /\ ip.requests[1] <= now - rules["email_per_ip"].window_seconds

\* C7 as claimed: recording an email for address A never changes what
\* check_rate_limit returns for another address B.
C7_Original ==
    [][\A a \in Addresses, b \in Addresses :
          (a # b /\ Record(a, NoId, NoId))
          => CheckRateLimit(records', b, NoId, NoId, now).allowed
                 = CheckRateLimit(records, b, NoId, NoId, now).allowed]_vars

\* C7 amended: recording an email for address A leaves the per-address record
\* of every other address B as it was, and the answer of check_rate_limit for
\* B turns from allowed to denied only through a record the two calls share
\* (the global record, the same user's or the same IP's).
C7_AddressRecordsIndependent ==
    [][\A a \in Addresses, u \in UserIds, i \in IpAddresses :
          Record(a, u, i) =>
            \A b \in Addresses \ {a} :
              /\ SameEntry(records, records', GenerateKey("email_per_address", b))
              /\ \A u2 \in UserIds, i2 \in IpAddresses :
                    (/\ CheckRateLimit(records, b, u2, i2, now).allowed
                     /\ ~CheckRateLimit(records', b, u2, i2, now).allowed)
                    => \E j \in 2..Len(ExpectedRules(b, u2, i2)) :
                          LET c == ExpectedRules(b, u2, i2)[j]
                          IN  /\ \E j2 \in 1..Len(ExpectedRules(a, u, i)) :
                                    ExpectedRules(a, u, i)[j2] = c
                              /\ ~RuleAllows(RecAt(records', c), rules[c[1]], now)]_vars

\* the limit of one address was just exhausted by a record call while the
\* other address, used before, is below its limit
C7_Witness ==
    /\ result.op = "record" /\ result.at = now
    /\ \E a \in Addresses, b \in Addresses :
          /\ a # b
          /\ CountInWindow(RecAt(records, <<"email_per_address", a>>),
                           rules["email_per_address"], now)
                 >= rules["email_per_address"].max_requests
          /\ GenerateKey("email_per_address", b) \in DOMAIN records
          /\ RuleAllows(RecAt(records, <<"email_per_address", b>>),
                        rules["email_per_address"], now)

ApiKeys ==
    {ApiKey(r, id) : r \in ApiRuleNames \cap DOMAIN apiRules, id \in ApiIdentifiers}

\* a record in cooldown at the time of the next state keeps its blocked_until
CooldownKept(recs, recs2, keys, t) ==
    \A k \in keys :
        (k \in DOMAIN recs /\ Blocked(recs[k], t))
        => (k \in DOMAIN recs2 /\ recs2[k].blocked_until = recs[k].blocked_until)

\* C2: once a check has set blocked_until, checks and records leave it in
\* place until the clock reaches it, and every check of an identifier with a
\* record in cooldown is denied, also when its timestamps have left the
\* window (check_rate_limit and check_and_record).
C2_CooldownHolds ==
    /\ [](/\ \A a \in Addresses :
               (\E j \in 1..Len(ExpectedRules(a, NoId, NoId)) :
                   Blocked(RecAt(records, ExpectedRules(a, NoId, NoId)[j]), now))
               => ~CheckRateLimit(records, a, NoId, NoId, now).allowed
           /\ \A r \in ApiRuleNames \cap DOMAIN apiRules, id \in ApiIdentifiers :
               Blocked(GetRecord(apiRecords, ApiKey(r, id)), now)
               => ~CheckAndRecord(apiRecords, r, id, now).allowed)
    /\ [][/\ CooldownKept(records, records', EmailKeys, now')
          /\ CooldownKept(apiRecords, apiRecords', ApiKeys, now')]_vars

\* a check made now was denied by the cooldown of the global record, all of
\* whose timestamps have left the window, and the address checked was itself free
C2_Witness ==
    /\ result.op = "check" /\ ~result.allowed /\ result.at = now
    /\ LET g == RecAt(records, <<"email_global", GlobalId>>)
       IN  /\ Blocked(g, now)
           /\ g.blocked_until < now + rules["email_global"].cooldown_seconds
           /\ g.requests # <<>>
           /\ CountInWindow(g, rules["email_global"], now) = 0
    /\ \A a \in Addresses :
          RuleAllows(RecAt(records, <<"email_per_address", a>>),
                     rules["email_per_address"], now)

\* C9: a check made while blocked_until of a record is in the future is
\* denied and leaves requests, blocked_until and total_blocked of that record
\* as they were (check_rate_limit and check_and_record).
C9_CooldownCheckChangesNothing ==
    /\ \A a \in Addresses :
          LET cs == ExpectedRules(a, NoId, NoId)
              out == CheckRateLimit(records, a, NoId, NoId, now)
          IN  \A j \in 1..Len(cs) :
                  Blocked(RecAt(records, cs[j]), now)
                  => /\ ~out.allowed
                     /\ RecAt(out.records, cs[j]) = RecAt(records, cs[j])
    /\ \A r \in ApiRuleNames \cap DOMAIN apiRules, id \in ApiIdentifiers :
          LET out == CheckAndRecord(apiRecords, r, id, now)
          IN  Blocked(GetRecord(apiRecords, ApiKey(r, id)), now)
              => /\ ~out.allowed
                 /\ GetRecord(out.records, ApiKey(r, id))
                        = GetRecord(apiRecords, ApiKey(r, id))

\* a check_rate_limit call was made on the only address ever used, during a
\* cooldown set at an earlier time and counted once, and check_and_record has
\* an identifier in cooldown, counted once
C9_Witness ==
    /\ result.op = "check" /\ ~result.allowed /\ result.at = now
    /\ \E a \in Addresses :
          LET rec == RecAt(records, <<"email_per_address", a>>)
          IN  /\ Blocked(rec, now)
              /\ rec.blocked_until
                     < now + rules["email_per_address"].cooldown_seconds
              /\ rec.total_blocked = 1
              /\ \A b \in Addresses \ {a} :
                    GenerateKey("email_per_address", b) \notin DOMAIN records
    /\ \E k \in ApiKeys :
          /\ Blocked(GetRecord(apiRecords, k), now)
          /\ GetRecord(apiRecords, k).total_blocked = 1

\* what a step may do to blocked_until and total_blocked of one record
BlockStep(record, record2, rule, t) ==
    /\ record2.blocked_until # record.blocked_until =>
          \/ /\ record2.blocked_until = None
             /\ record.blocked_until <= t
          \/ /\ record2.blocked_until = t + rule.cooldown_seconds
             /\ ~Blocked(record, t)
             /\ CountInWindow(record, rule, t) >= rule.max_requests
    /\ record2.total_blocked # record.total_blocked =>
          /\ record2.total_blocked = record.total_blocked + 1
          /\ record2.blocked_until = t + rule.cooldown_seconds
          /\ ~Blocked(record, t)
    /\ (record2.blocked_until # None /\ record2.blocked_until # record.blocked_until)
          => record2.total_blocked = record.total_blocked + 1

\* C10: a check that finds a record at capacity (and not in cooldown) sets
\* its blocked_until to the time of the check plus cooldown_seconds and adds
\* exactly 1 to total_blocked; no step gives blocked_until any other value
\* than None or that one, and total_blocked changes in no other way
\* (check_rate_limit and check_and_record).
C10_BlockedUntilExact ==
    /\ [](/\ \A a \in Addresses :
               LET cs == ExpectedRules(a, NoId, NoId)
                   out == CheckRateLimit(records, a, NoId, NoId, now)
               IN  \A j \in 1..Len(cs) :
                     LET rec == RecAt(records, cs[j])
                         rule == rules[cs[j][1]]
                     IN  (/\ \A j2 \in 1..(j - 1) :
                                RuleAllows(RecAt(records, cs[j2]),
                                           rules[cs[j2][1]], now)
                          /\ ~Blocked(rec, now)
                          /\ CountInWindow(rec, rule, now) >= rule.max_requests)
                         => /\ RecAt(out.records, cs[j]).blocked_until
                                   = now + rule.cooldown_seconds
                            /\ RecAt(out.records, cs[j]).total_blocked
                                   = rec.total_blocked + 1
           /\ \A r \in ApiRuleNames \cap DOMAIN apiRules, id \in ApiIdentifiers :
               LET before == GetRecord(apiRecords, ApiKey(r, id))
                   after == GetRecord(CheckAndRecord(apiRecords, r, id, now).records,
                                      ApiKey(r, id))
               IN  (/\ ~Blocked(before, now)
                    /\ CountInWindow(before, apiRules[r], now)
                           >= apiRules[r].max_requests)
                   => /\ after.blocked_until = now + apiRules[r].cooldown_seconds
                      /\ after.total_blocked = before.total_blocked + 1)
    /\ [][/\ \A k \in EmailKeys :
                BlockStep(GetRecord(records, k), GetRecord(records', k),
                          rules[k[1]], now)
          /\ \A k \in ApiKeys :
                BlockStep(GetRecord(apiRecords, k), GetRecord(apiRecords', k),
                          apiRules[k[1]], now)]_vars

\* a check made now blocked an address for the second time, and
\* check_and_record has blocked an identifier
C10_Witness ==
    /\ result.op = "check" /\ ~result.allowed /\ result.at = now
    /\ \E a \in Addresses :
          LET rec == RecAt(records, <<"email_per_address", a>>)
          IN  /\ rec.blocked_until
                     = now + rules["email_per_address"].cooldown_seconds
              /\ rec.total_blocked = 2
    /\ \E k \in ApiKeys :
          /\ GetRecord(apiRecords, k).total_blocked >= 1
          /\ GetRecord(apiRecords, k).blocked_until # None

\* C5: in every send operation record_email_sent runs at most once, only
\* after check_rate_limit allowed and aiosmtplib.send returned, never after a
\* denial, for an unsubscribed recipient or after a send that raised; nothing
\* but a send that returned adds a timestamp to a record.
C5_RecordOnlyAfterSend ==
    /\ [](\A p \in Tasks :
             LET task == tasks[p]
             IN  /\ task.recorded <= 1
                 /\ task.recorded = 1 =>
                       (task.smtp = "ok" /\ task.checked /\ task.allowed
                        /\ ~task.unsubscribed)
                 /\ (task.smtp # "none"
                     \/ task.pc \in {"check_unsubscribed", "smtp_send"})
                       => (task.checked /\ task.allowed)
                 /\ (task.pc = "done" /\ ~task.allowed) =>
                       (task.checked /\ task.smtp = "none"))
    /\ [][(\E k \in EmailKeys :
              Len(GetRecord(records', k).requests)
                  > Len(GetRecord(records, k).requests))
          => \E p \in Tasks :
                /\ tasks[p].pc = "smtp_send" /\ tasks[p].allowed
                /\ tasks'[p].pc = "done" /\ tasks'[p].smtp = "ok"
                /\ tasks'[p].recorded = 1]_vars

\* one call has sent and recorded, another was denied and recorded nothing
C5_Witness ==
    \E p \in Tasks, q \in Tasks :
        /\ tasks[p].pc = "done" /\ tasks[p].smtp = "ok" /\ tasks[p].recorded = 1
        /\ tasks[q].pc = "done" /\ tasks[q].checked /\ ~tasks[q].allowed
        /\ tasks[q].recorded = 0

\* the keys record_email_sent writes for a task
TaskKeys(task) ==
    {GenerateKey(ExpectedRules(task.to_email, task.user_id, task.ip_address)[j][1],
                 ExpectedRules(task.to_email, task.user_id, task.ip_address)[j][2]) :
        j \in 1..Len(ExpectedRules(task.to_email, task.user_id, task.ip_address))}

\* C8: whatever the interleaving of the send operations and of
\* get_rate_limit_status, a step keeps every timestamp inside the window of
\* every record, and a send that returned adds exactly one timestamp to each
\* record of its call: M record_email_sent calls raise the count by M.
C8_NoLostUpdate ==
    [][now' = now =>
          \A k \in EmailKeys :
              InWindow(GetRecord(records', k), rules[k[1]], now)
                  = InWindow(GetRecord(records, k), rules[k[1]], now)
                    \o (IF \E p \in Tasks :
                              SmtpAnswer(p, TRUE) /\ k \in TaskKeys(tasks[p])
                        THEN <<now>> ELSE <<>>)]_vars

\* two sends that were in flight together have both recorded: the address
\* holds one timestamp more than the rule admits
C8_Witness ==
    /\ \E p \in Tasks : tasks[p].pc = "done" /\ tasks[p].recorded = 1
    /\ \E a \in SendAddresses :
          CountInWindow(RecAt(records, <<"email_per_address", a>>),
                        rules["email_per_address"], now)
              = rules["email_per_address"].max_requests + 1

\* the cooldown of the record has run out at t and is still written on it
Elapsed(record, t) == record.blocked_until # None /\ record.blocked_until <= t

\* C11: a check that reaches a record whose cooldown has elapsed prunes its
\* window and then tests capacity: with max_requests or more timestamps left
\* in the window the check is denied (and the record blocked anew), with
\* fewer the record leaves with blocked_until = None; the check is allowed
\* only when every applicable record holds fewer.
C11_ElapsedCooldownStillCounts ==
    \A a \in Addresses :
        LET cs == ExpectedRules(a, NoId, NoId)
            out == CheckRateLimit(records, a, NoId, NoId, now)
        IN  /\ \A j \in 1..Len(cs) :
                  LET rec == RecAt(records, cs[j])
                      rule == rules[cs[j][1]]
                      after == RecAt(out.records, cs[j])
                  IN  (/\ Elapsed(rec, now)
                       /\ \A j2 \in 1..(j - 1) :
                              RuleAllows(RecAt(records, cs[j2]),
                                         rules[cs[j2][1]], now))
                      => /\ after.requests = InWindow(rec, rule, now)
                         /\ IF CountInWindow(rec, rule, now) >= rule.max_requests
                            THEN ~out.allowed /\ Blocked(after, now)
                            ELSE after.blocked_until = None
            /\ out.allowed =>
                  \A j \in 1..Len(cs) :
                      CountInWindow(RecAt(records, cs[j]), rules[cs[j][1]], now)
                          < rules[cs[j][1]].max_requests

\* a check made now, when the first cooldown of an address had just run out,
\* was denied by the timestamps recorded before that cooldown: the address
\* is blocked for the second time
C11_Witness ==
    /\ result.op = "check" /\ ~result.allowed /\ result.at = now
    /\ \E a \in Addresses :
          LET rec == RecAt(records, <<"email_per_address", a>>)
              rule == rules["email_per_address"]
          IN  /\ rec.total_blocked = 2
              /\ rec.blocked_until = now + rule.cooldown_seconds
              /\ CountInWindow(rec, rule, now) >= rule.max_requests
              /\ rec.requests[1] <= now - rule.cooldown_seconds

\* C12: a call of check_and_record that names a rule which is not registered
\* is never answered as allowed (it is to raise, which returns no answer).
C12_UnknownRuleNeverAllowed ==
    [][\A r \in ApiRuleNames \ DOMAIN apiRules, id \in ApiIdentifiers :
          ApiCheckAndRecord(r, id) => ~result'.allowed]_vars

\* C13: a call of send_submission_notification always ends by returning,
\* never by raising, after a denial as after a failed aiosmtplib.send; a
\* denied call has sent nothing and recorded nothing, and the step in which
\* it is denied appends no timestamp to any record.
C13_NotificationDenialSilent ==
    /\ [](\A p \in Tasks :
             (tasks[p].kind = "send_submission_notification"
              /\ tasks[p].pc = "done")
             => /\ tasks[p].outcome = "returned"
                /\ ~tasks[p].allowed =>
                      (tasks[p].smtp = "none" /\ tasks[p].recorded = 0))
    /\ [][\A p \in Tasks :
             (/\ tasks[p].pc = "idle"
              /\ tasks'[p].kind = "send_submission_notification"
              /\ tasks'[p].pc = "done")
             => \A k \in EmailKeys \cup DOMAIN records \cup DOMAIN records' :
                   Len(GetRecord(records', k).requests)
                       <= Len(GetRecord(records, k).requests)]_vars

\* one notification was denied and returned without sending, another was
\* allowed, lost its SMTP send and returned as well
C13_Witness ==
    \E p \in Tasks, q \in Tasks :
        /\ tasks[p].kind = "send_submission_notification"
        /\ tasks[p].pc = "done" /\ tasks[p].checked /\ ~tasks[p].allowed
        /\ tasks[p].outcome = "returned" /\ tasks[p].recorded = 0
        /\ tasks[q].kind = "send_submission_notification"
        /\ tasks[q].pc = "done" /\ tasks[q].smtp = "failed"
        /\ tasks[q].outcome = "returned"

\* the items SimpleCache holds under a key
SimpleItems(cache, key) == {cache[n] : n \in {m \in 1..Len(cache) : cache[m].key = key}}

C15_EvictsLeastRecentlyAccessed ==
    \A q \in Prompts, m \in Models, c \in Temperatures, d \in CacheData :
        LET key == <<NormalizedPrompt(q), m, c>>
            out == SimpleSet(simpleCache, q, m, c, d, now)
            gone == SimpleKeys(simpleCache) \ SimpleKeys(out)
        IN  (/\ Len(simpleCache) = MaxSize
             /\ \A n \in 1..Len(simpleCache) : now <= simpleCache[n].expiry
             /\ key \notin SimpleKeys(simpleCache))
            => /\ Cardinality(gone) = 1
               /\ Len(out) = MaxSize
               /\ \A victim \in SimpleItems(simpleCache, CHOOSE k \in gone : TRUE) :
                     \A n \in 1..Len(simpleCache) :
                         victim.last_accessed <= simpleCache[n].last_accessed
               /\ \A k \in SimpleKeys(simpleCache) \ gone :
                     SimpleItems(out, k) = SimpleItems(simpleCache, k)
               /\ SimpleItems(out, key)
                     = {[key |-> key, data |-> d, expiry |-> now + TtlSeconds,
                         last_accessed |-> now]}

\* a set under a new key has just put out one item of a full cache, at a
\* time when no item can have expired; the item that stayed was stored first
\* and had been read since
C15_Witness ==
    /\ cacheOut.op = "set" /\ now <= TtlSeconds
    /\ Cardinality(cacheOut.removed) = 1
    /\ Len(simpleCache) = MaxSize
    /\ \A k \in cacheOut.removed : k \notin SimpleKeys(simpleCache)
    /\ simpleCache[Len(simpleCache)].last_accessed = now
    /\ simpleCache[Len(simpleCache)].expiry = now + TtlSeconds
    /\ simpleCache[1].expiry - TtlSeconds = 0
    /\ simpleCache[1].last_accessed > 0

\* C16: SimpleCache never holds more than max_size items, and never two
\* under one key.
C16_SizeBounded ==
    /\ Len(simpleCache) <= MaxSize
    /\ Cardinality(SimpleKeys(simpleCache)) = Len(simpleCache)

\* a set has just been made on a cache that was full and has put an item
\* out of it
C16_Witness ==
    /\ cacheOut.op = "set"
    /\ cacheOut.removed # {}
    /\ Len(simpleCache) = MaxSize

\* C19: clear leaves SimpleCache without any item, whatever it held: size()
\* is 0 and every get returns None; clearing again, or clearing an empty
\* cache, leaves it empty.
C19_ClearEmpties ==
    /\ LET out == SimpleClear(simpleCache)
       IN  /\ Len(out) = 0
           /\ SimpleSize(out) = 0
           /\ SimpleClear(out) = out
           /\ \A q \in Prompts, m \in Models, c \in Temperatures :
                 SimpleGet(out, q, m, c, now).value = Absent
    /\ cacheOut.op = "clear" => simpleCache = << >>

\* clear has just emptied a full cache
C19_Witness ==
    /\ cacheOut.op = "clear"
    /\ Cardinality(cacheOut.removed) = MaxSize
    /\ simpleCache = << >>

\* C17: an item whose expires_at is None (stored with ttl <= 0) is valid at
\* every later time: a get under its key returns its value.
C17_NullExpiryNeverExpires ==
    (/\ cacheOut.op = "mem_get"
     /\ cacheOut.key \in DOMAIN memCache
     /\ memCache[cacheOut.key].expires_at = None)
    => cacheOut.value = memCache[cacheOut.key].value

\* C18: a set of MemoryCache returns True and leaves the value stored under
\* the key, whatever the cache held before.
C18_SetAlwaysStores ==
    cacheOut.op = "mem_set"
    => /\ cacheOut.value = "True"
       /\ cacheOut.key \in DOMAIN memCache

\* an item of MemoryCache whose expiry has passed at t
MemExpiredAt(item, t) == item.expires_at # None /\ t > item.expires_at

\* C20: a set made while the number of items is a multiple of the sweep
\* interval leaves no expired item in the map.
C20_SweepRemovesExpired ==
    [][\A k \in MemKeys, v \in MemValues, ttl \in MemTtls :
          (/\ MemCacheSet(k, v, ttl)
           /\ Cardinality(DOMAIN memCache) % SweepEvery = 0)
          => \A key \in DOMAIN memCache' : ~MemExpiredAt(memCache'[key], now)]_vars

\* C24 as claimed: whatever the interleaving of the send operations, the
\* number of emails sent to an address within one window never exceeds
\* max_requests of the per-address rule.
C24_Original ==
    \A a \in SendAddresses :
        CountInWindow(RecAt(records, <<"email_per_address", a>>),
                      rules["email_per_address"], now)
            <= rules["email_per_address"].max_requests

\* C24 amended: the number of emails sent to an address within one window
\* never exceeds max_requests by more than the number of send operations
\* that can be in flight at once, less one (a send checks before its SMTP
\* await and records after it).
C24_CeilingUpToInFlight ==
    \A a \in SendAddresses :
        CountInWindow(RecAt(records, <<"email_per_address", a>>),
                      rules["email_per_address"], now)
            <= rules["email_per_address"].max_requests + Cardinality(Tasks) - 1

\* every send operation of the model has checked while the address was below
\* its limit and has then sent and recorded: the window holds max_requests
\* and one timestamp for each further operation
C24_Witness ==
    /\ \A p \in Tasks : /\ tasks[p].pc = "done" /\ tasks[p].smtp = "ok"
                        /\ tasks[p].allowed /\ tasks[p].recorded = 1
    /\ \E a \in SendAddresses :
          /\ \A p \in Tasks : tasks[p].to_email = a
          /\ CountInWindow(RecAt(records, <<"email_per_address", a>>),
                           rules["email_per_address"], now)
                 = rules["email_per_address"].max_requests + Cardinality(Tasks) - 1

\* the call appended the time of the call to a record of the API limiter
ApiAppended(recs, recs2, t) ==
    \E k \in DOMAIN recs2 :
        InWindow(recs2[k], apiRules[k[1]], t)
            = InWindow(GetRecord(recs, k), apiRules[k[1]], t) \o <<t>>

\* C25: a call of check_and_record appends a timestamp iff it returns
\* allowed = true; a denied call leaves the timestamps inside the window of
\* every record as they were, and no record ever holds more than
\* max_requests timestamps inside its window.
C25_ApiAppendsIffAllowed ==
    /\ [](\A k \in DOMAIN apiRecords :
             CountInWindow(apiRecords[k], apiRules[k[1]], now)
                 <= apiRules[k[1]].max_requests)
    /\ [][\A r \in ApiRuleNames, id \in ApiIdentifiers :
             ApiCheckAndRecord(r, id)
             => /\ result'.allowed <=> ApiAppended(apiRecords, apiRecords', now)
                /\ ~result'.allowed =>
                      \A k \in DOMAIN apiRecords' :
                          InWindow(apiRecords'[k], apiRules[k[1]], now)
                              = InWindow(GetRecord(apiRecords, k),
                                         apiRules[k[1]], now)]_vars

\* C25 on the registered rules alone (the part of it the code keeps)
C25_RegisteredRules ==
    /\ [](\A k \in DOMAIN apiRecords :
             CountInWindow(apiRecords[k], apiRules[k[1]], now)
                 <= apiRules[k[1]].max_requests)
    /\ [][\A r \in ApiRuleNames \cap DOMAIN apiRules, id \in ApiIdentifiers :
             ApiCheckAndRecord(r, id)
             => /\ result'.allowed <=> ApiAppended(apiRecords, apiRecords', now)
                /\ ~result'.allowed =>
                      \A k \in DOMAIN apiRecords' :
                          InWindow(apiRecords'[k], apiRules[k[1]], now)
                              = InWindow(GetRecord(apiRecords, k),
                                         apiRules[k[1]], now)]_vars

\* C29: a set under a key SimpleCache already holds only replaces the item
\* of that key: every other item that has not expired is held afterwards as
\* it was, also when the cache holds max_size items.
C29_OverwriteKeepsOthers ==
    \A q \in Prompts, m \in Models, c \in Temperatures, d \in CacheData :
        LET key == <<NormalizedPrompt(q), m, c>>
            out == SimpleSet(simpleCache, q, m, c, d, now)
        IN  key \in SimpleKeys(simpleCache)
            => /\ SimpleItems(out, key)
                     = {[key |-> key, data |-> d, expiry |-> now + TtlSeconds,
                         last_accessed |-> now]}
               /\ \A n \in 1..Len(simpleCache) :
                     (simpleCache[n].key # key /\ now <= simpleCache[n].expiry)
                     => SimpleItems(out, simpleCache[n].key) = {simpleCache[n]}

\* C21 as claimed: over check_rate_limit, record_email_sent,
\* get_rate_limit_status and cleanup_expired_records the total_blocked that
\* is reported for a (rule, identifier) pair never decreases.
C21_Original ==
    [][\A k \in EmailKeys :
          GetRecord(records', k).total_blocked
              >= GetRecord(records, k).total_blocked]_vars

\* C21 amended: total_blocked of a (rule, identifier) pair never decreases
\* as long as its record is kept: only a run of cleanup_expired_records that
\* deletes the record takes it back to 0.
C21_TotalBlockedKeptWhileRecorded ==
    [][\A k \in EmailKeys :
          \/ GetRecord(records', k).total_blocked
                 >= GetRecord(records, k).total_blocked
          \/ /\ Cleanup
             /\ k \in DOMAIN records /\ k \notin DOMAIN records'
             /\ IsExpiredRecord(records[k], now)]_vars

\* a record that was blocked twice has come through a run of the cleanup
\* with its count
C21_Witness ==
    /\ result.op = "cleanup" /\ result.at = now
    /\ \E a \in Addresses :
          /\ GenerateKey("email_per_address", a) \in DOMAIN records
          /\ RecAt(records, <<"email_per_address", a>>).total_blocked = 2

SocketListed(w) ==
    \E u \in DOMAIN activeConnections : SeqContains(activeConnections[u], w)
SocketSubscribed(w) ==
    \E r \in DOMAIN roomSubscriptions : SeqContains(roomSubscriptions[r], w)

\* C26: after disconnect(ws) of a registered socket has completed, ws is in
\* no list of active_connections, in no list of room_subscriptions and not
\* in connection_metadata, whatever connect, subscribe_to_room and
\* unsubscribe_from_room calls came before (subscriptions to several rooms
\* included).
C26_DisconnectRemovesEverywhere ==
    (wsOut.op = "disconnect" /\ wsOut.known /\ ~wsOut.raised) =>
        /\ ~SocketListed(wsOut.websocket)
        /\ ~SocketSubscribed(wsOut.websocket)
        /\ wsOut.websocket \notin DOMAIN connectionMetadata

\* ---------------------------------------------------------------- C27
\* how often x is in the list s
Occurrences(s, x) == Cardinality({n \in 1..Len(s) : s[n] = x})

\* C27: when send_to_user has returned, every connection of the user that
\* was registered from the start of the call to its end was sent the message
\* exactly once, also when other connections of the user were disconnected
\* by other tasks during the awaited sends.
C27_EveryStayingConnectionTriedOnce ==
    sender.pc = "returned" =>
        \A w \in sender.stayed : Occurrences(sender.attempted, w) = 1

\* ---------------------------------------------------------------- C28
\* the lists of active_connections and the metadata name the same sockets
\* under the same users, and no key of either dict of lists has the empty list
C28_Consistent ==
    /\ \A w \in Sockets, u \in WsUserIds :
          (u \in DOMAIN activeConnections
              /\ SeqContains(activeConnections[u], w))
          <=> (w \in DOMAIN connectionMetadata
                  /\ connectionMetadata[w].user_id = u)
    /\ \A u \in DOMAIN activeConnections : activeConnections[u] # << >>
    /\ \A r \in DOMAIN roomSubscriptions : roomSubscriptions[r] # << >>

\* a disconnect of a socket that has no metadata (any more) leaves the three
\* dicts as they were
SecondDisconnectChangesNothing ==
    (wsOut'.op = "disconnect"
        /\ wsOut'.websocket \notin DOMAIN connectionMetadata)
    => UNCHANGED <<activeConnections, connectionMetadata, roomSubscriptions>>

\* C28: in every reachable state a socket is listed in active_connections[u]
\* iff connection_metadata has an entry for it with user_id u, no key of
\* active_connections or room_subscriptions is mapped to the empty list, and
\* a second disconnect of a socket changes nothing.
C28_DictsConsistent ==
    []C28_Consistent /\ [][SecondDisconnectChangesNothing]_vars

\* C28 witness: a socket was disconnected a second time while another socket
\* is registered and subscribed to a room
C28_Witness ==
    /\ wsOut.op = "disconnect"
    /\ ~wsOut.known
    /\ DOMAIN connectionMetadata # {}
    /\ DOMAIN roomSubscriptions # {}
    /\ DOMAIN activeConnections # {}

\* ---------------------------------------------------------------- C23
\* a call of generate_html_only made at most MaxAttempts LLM calls, did not
\* raise, returned a page, and returned the fallback page when its last LLM
\* call timed out or raised
C23_Safe ==
    \A g \in GenTasks :
        LET gen == generations[g]
        IN  /\ gen.llm_calls <= MaxAttempts
            /\ ~gen.raised
            /\ gen.pc = "returned" => gen.html \in LlmPages \cup FallbackPages
            /\ (gen.pc = "returned" /\ gen.last \in {"timeout", "error"})
                  => gen.html \in FallbackPages
            /\ (gen.pc = "returned" /\ gen.last = "timeout")
                  => gen.llm_calls = MaxAttempts

\* C23: generate_html_only always ends with an HTML page and never raises on
\* an LLM timeout: each generator makes at most two LLM attempts, and when
\* the last attempt times out or any other exception occurs it returns the
\* static fallback page.
C23_AlwaysReturnsPage ==
    /\ []C23_Safe
    /\ \A g \in GenTasks :
          (generations[g].pc = "awaiting") ~> (generations[g].pc = "returned")

\* C23 witness: a call returned the fallback page after its second attempt
\* timed out
C23_Witness ==
    \E g \in GenTasks :
        /\ generations[g].pc = "returned"
        /\ generations[g].last = "timeout"
        /\ generations[g].llm_calls = MaxAttempts
        /\ generations[g].html \in FallbackPages

\* ---------------------------------------------------------------- C30
\* C30: generate_html_only stores only pages of a successful LLM call: the
\* step in which a call returns the fallback page because its last LLM
\* attempt timed out leaves no fallback page in the memory cache under the
\* call's key, so that a later call with the same prompt and language asks
\* the LLM again.
C30_TimeoutFallbackNotCached ==
    [][\A g \in GenTasks :
          (generations[g].pc = "awaiting"
              /\ generations'[g].pc = "returned"
              /\ generations'[g].last = "timeout")
          => LET key == FormGenKey(generations[g].prompt, generations[g].lang)
             IN  key \in DOMAIN memCache'
                     => memCache'[key].value \notin FallbackPages]_vars

====
